---- MODULE Spec2Model ----
(***************************************************************************)
(* tau-cli (src/src/main.rs): a single-threaded command line program that   *)
(* loads rule files, opens a Record Source (stdin or a stack of files) and  *)
(* a Match Sink (stdout, one file, or one file per rule entry), and then    *)
(* pulls records, evaluates every rule and writes the matches.              *)
(*                                                                         *)
(* The file system and the rule engine are the environment.  What the       *)
(* program is started with (arguments, which output files exist, what each  *)
(* rule file loads to) is chosen in Init; what the environment answers to a *)
(* single call (the input file an open finds, the text of the line a read   *)
(* returns, whether a write or an open fails for an OS reason, whether a    *)
(* rule matches a record) is chosen when the call is made.                  *)
(***************************************************************************)
EXTENDS Integers, Sequences, FiniteSets, TLC

\* ---------------------------------------------------------------- bounds
MaxRules == 2   \* rule paths on the command line
MaxFiles == 3   \* input paths on the command line
MaxLines == 2   \* lines of input, all input files (or stdin) together
MaxRuns == 2    \* times the same command line is run, one after the other
MaxItems == 2   \* items of a run after which a stdin whose read fails without
                \* using anything up is followed no further

\* ---------------------------------------------------------- the rule files
\* The rule paths the command line can name.  Two of them share a file name.
RulePaths == {"a/r1.yml", "b/r1.yml", "r2.yml", "r3.yml", "r4.yml", "r5.yml"}

\* What the rule engine and the file system make of the file at a rule path:
\* readable: fs::read_to_string succeeds; parses: Rule::load returns Ok;
\* validates: the result of Rule::validate ("true", "false" or "err");
\* utf8: the file name converts to a str.
RuleFile(p) ==
    CASE p = "a/r1.yml" -> [readable |-> TRUE,  parses |-> TRUE,  validates |-> "true",  utf8 |-> TRUE]
      [] p = "b/r1.yml" -> [readable |-> TRUE,  parses |-> FALSE, validates |-> "true",  utf8 |-> TRUE]
      [] p = "r2.yml"   -> [readable |-> TRUE,  parses |-> TRUE,  validates |-> "true",  utf8 |-> TRUE]
      [] p = "r3.yml"   -> [readable |-> TRUE,  parses |-> TRUE,  validates |-> "false", utf8 |-> TRUE]
      [] p = "r4.yml"   -> [readable |-> FALSE, parses |-> TRUE,  validates |-> "true",  utf8 |-> TRUE]
      [] OTHER          -> [readable |-> TRUE,  parses |-> TRUE,  validates |-> "err",   utf8 |-> FALSE]

\* path.file_name(): the last component of the path.
BaseName(p) ==
    CASE p = "a/r1.yml" -> "r1.yml"
      [] p = "b/r1.yml" -> "r1.yml"
      [] OTHER          -> p

NoName == "<none>"
\* path.as_path().file_name().map(|f| f.to_str()).flatten()
FileName(p) == IF RuleFile(p).utf8 THEN BaseName(p) ELSE NoName

NoRule == "<None>"
\* A load that forgets the validation check: every rule that parses is Some.
LoadRuleUnvalidated(p) == IF RuleFile(p).parses THEN p ELSE NoRule

\* The match of lines 98-107 once the source text is read: Some(r) only for a
\* rule that loads and whose validate() returns Ok(true).
LoadRule(p) ==
    IF RuleFile(p).parses
    THEN IF RuleFile(p).validates = "true" THEN p ELSE NoRule
    ELSE NoRule

\* ------------------------------------------------------------- values
None == "<None>"
NoError == <<>>       \* no error message
Msg(text, at) == <<[msg |-> text, at |-> at]>>   \* an error message about path(s) `at`
NotYet == [kind |-> "not returned", err |-> NoError]   \* validate_rules has not returned
Ok == [kind |-> "Ok", err |-> NoError]                 \* validate_rules returned Ok
Running == <<>>       \* the process has not exited (else <<status>>)
NotEnded == "<running>"   \* main has neither returned nor called process::exit
NoInput == [kind |-> "None"]    \* Opt.inner_input = None
NoOutput == [kind |-> "None"]   \* Opt.inner_output = None
NoItem == [kind |-> "not called", val |-> ""]   \* next() has not been called
NoCall == [name |-> "", wrote |-> <<>>, res |-> "not called"]  \* no output_match call
NoFile == [openable |-> FALSE, lines |-> 0]   \* an input path that cannot be opened
File(n) == [openable |-> TRUE, lines |-> n]    \* an input file of n lines
\* What an open of an input path can find when the files opened before it
\* hold `seen` lines.
InputFiles(seen) == {File(n) : n \in 0..(MaxLines - seen)} \cup {NoFile}
Absent == <<"<absent>">>   \* an output path at which no file exists
OutFile == "out.txt"  \* the output path of single-file mode
OldData == <<"old">>  \* what an output file that exists holds before the run

\* The text of an input line without its terminator: a JSON value, a text
\* that is no JSON value, and the empty text of a blank line.
LineTexts == {"{}", "x", ""}
\* A line that cannot be read (invalid UTF-8): the error uses the line up.
ReadErr == "<read error>"
\* What one read_line call on a reader with an unread line can return.
ReadOutcomes == LineTexts \cup {ReadErr}
\* A read of stdin that itself fails (EISDIR, EIO): the error uses nothing
\* up, the next read starts where this one did.
ReadFault == "<read fault>"
\* What one read of stdin can return.
StdinOutcomes == ReadOutcomes \cup {ReadFault}
EndOfInput == "<end of input>"   \* a read that finds no unread line
NoRead == "<no read>"            \* the input has not been read
\* What a read meets when `left` lines are unread and the OS answers o.
Met(left, o) == IF o = ReadFault THEN ReadFault ELSE IF left = 0 THEN EndOfInput ELSE o

NoRun == [stdout |-> <<>>, exit_code |-> Running]   \* no run came before

VARIABLES
    rules,            \* Opt.rules
    input,            \* Opt.input: [some, paths]; path i is the i-th one supplied
    overwrite,        \* Opt.overwrite
    validate,         \* Opt.validate
    output,           \* Opt.output: None, "file" or "dir"
    inner_input,      \* Opt.inner_input
    inner_output,     \* Opt.inner_output
    validated_rules,  \* the ValidatedRules being built / returned
    lines_seen,       \* lines of the input files opened so far, all together
    stdinLeft,        \* unread lines of stdin
    outFS,            \* output path -> lines of the file, or Absent
    stdout,           \* lines written to stdout
    stderr,           \* messages written to stderr
    pc,               \* position of the program
    result,           \* what validate_rules returned: NotYet, Ok or the error
    exit_code,        \* Running, else the exit status
    main_result,      \* how main ended: NotEnded, "exit" (process::exit), or the
                      \* "Ok" or "Err" it returned
    item,             \* what the last invocation of next() returned
    ri,               \* index of the rule entry the for loop of main is at
    opened,           \* input paths opened so far, in order
    yielded,          \* items next() has returned so far
    dropped,          \* lines left unread in readers that next() replaced
    open_error,       \* io::ErrorKind of the output open that failed, or "none"
    dispatch,         \* the output_match call of the last pass of the for loop:
                      \* the rule name passed, the entries written, the result
    trace,            \* the passes of the for loop made for the current record:
                      \* the entry, the rule engine's answer, whether
                      \* output_match was called
    last_read,        \* what the last read of the input met: the text of the
                      \* line, ReadErr, EndOfInput, or NoRead
    run               \* this process among the runs of the command line: its
                      \* number, the input argument it started with, what the
                      \* run before it printed and exited with

vars == <<rules, input, overwrite, validate, output, inner_input, inner_output,
          validated_rules, lines_seen, stdinLeft, outFS, stdout, stderr, pc, result,
          exit_code, main_result, item, ri, opened, yielded, dropped, open_error, dispatch,
          trace, last_read, run>>

args == <<rules, input, overwrite, validate, output>>

\* The output paths the run can touch.
OutPaths == {OutFile} \cup {BaseName(p) : p \in RulePaths}

RECURSIVE SeqsUpTo(_, _)
SeqsUpTo(S, n) ==
    IF n = 0 THEN {<<>>}
    ELSE LET shorter == SeqsUpTo(S, n - 1)
         IN  shorter \cup {Append(s, x) : s \in {t \in shorter : Len(t) = n - 1}, x \in S}

\* The command lines considered name each rule path at most once.
Distinct(s) == \A i, j \in DOMAIN s : i # j => s[i] # s[j]

Init ==
    /\ rules \in {s \in SeqsUpTo(RulePaths, MaxRules) : Distinct(s)}
    /\ \/ /\ \E n \in 0..MaxFiles : input = [some |-> TRUE, paths |-> [i \in 1..n |-> i]]
          /\ stdinLeft = 0
       \/ /\ input = [some |-> FALSE, paths |-> <<>>]
          /\ stdinLeft \in 0..MaxLines
    /\ lines_seen = 0
    /\ overwrite \in BOOLEAN
    /\ validate \in BOOLEAN
    /\ output \in {None, "file", "dir"}
    /\ \E existing \in SUBSET OutPaths :
          /\ output = None => existing = {}
          /\ output = "file" => existing \subseteq {OutFile}
          /\ output = "dir" => existing \subseteq {"r1.yml"}
          /\ outFS = [p \in OutPaths |-> IF p \in existing THEN OldData ELSE Absent]
    /\ inner_input = NoInput
    /\ inner_output = NoOutput
    /\ validated_rules = <<>>
    /\ stdout = <<>>
    /\ stderr = <<>>
    /\ pc = "load"
    /\ result = NotYet
    /\ exit_code = Running
    /\ main_result = NotEnded
    /\ item = NoItem
    /\ ri = 0
    /\ opened = <<>>
    /\ yielded = 0
    /\ dropped = 0
    /\ open_error = "none"
    /\ dispatch = NoCall
    /\ trace = <<>>
    /\ last_read = NoRead
    /\ run = [n |-> 1, input |-> input, prev |-> NoRun]

\* ------------------------------------------------- validate_rules, lines 96-130
\* The for loop over self.rules from entry i on: the entries pushed, or the
\* error the `?` of line 100 or the return of line 110 leaves with.
RECURSIVE LoadFrom(_, _, _)
LoadFrom(rs, i, acc) ==
    IF i > Len(rs) THEN [err |-> NoError, rules |-> acc]
    ELSE IF ~RuleFile(rs[i]).readable
         THEN [err |-> Msg("Unable to read data from", <<rs[i]>>), rules |-> acc]
         ELSE IF FileName(rs[i]) = NoName
              THEN [err |-> Msg("Unable to validate as a rule", <<rs[i]>>), rules |-> acc]
              ELSE LoadFrom(rs, i + 1,
                            Append(acc, [rule |-> LoadRule(rs[i]), name |-> FileName(rs[i])]))

\* validate_rules returns Err(msg): main (line 241) is next.
Fail(msg) ==
    /\ result' = [kind |-> "Err", err |-> msg]
    /\ pc' = "main"

LoadRules ==
    /\ pc = "load"
    /\ LET r == LoadFrom(rules, 1, <<>>)
       IN  /\ validated_rules' = r.rules
           /\ IF r.err = NoError
              THEN /\ pc' = "input"
                   /\ UNCHANGED result
              ELSE Fail(r.err)
    /\ UNCHANGED <<args, run, inner_input, inner_output, lines_seen, stdinLeft, outFS, stdout,
                   stderr, exit_code, main_result, item, ri, opened, yielded, dropped,
                   open_error, dispatch, trace, last_read>>

\* ------------------------------------------------ validate_rules, lines 132-150
\* Vec::pop: the last element and the rest.
Last(s) == s[Len(s)]
Front(s) == SubSeq(s, 1, Len(s) - 1)

\* io::BufReader::new(f): a reader over file f found at path p, nothing read yet.
BufReader(p, f) == [file |-> p, left |-> f.lines]

OpenInput ==
    /\ pc = "input"
    /\ IF ~input.some
       THEN /\ inner_input' = [kind |-> "CommandLine"]
            /\ pc' = "output"
            /\ UNCHANGED <<input, result, opened, lines_seen>>
       ELSE IF input.paths = <<>>
       THEN /\ Fail(Msg("No rule files provided, use -r or --rules to specify one or more rules", <<>>))
            /\ UNCHANGED <<input, inner_input, opened, lines_seen>>
       ELSE /\ input' = [input EXCEPT !.paths = Front(@)]
            /\ \E f \in InputFiles(lines_seen) :
                  IF ~f.openable
                  THEN /\ Fail(Msg("Unable to read input file at", <<Last(input.paths)>>))
                       /\ UNCHANGED <<inner_input, opened, lines_seen>>
                  ELSE /\ inner_input' = [kind |-> "Files", paths |-> Front(input.paths),
                                          buffer |-> BufReader(Last(input.paths), f)]
                       /\ opened' = Append(opened, Last(input.paths))
                       /\ lines_seen' = lines_seen + f.lines
                       /\ pc' = "output"
                       /\ UNCHANGED result
    /\ UNCHANGED <<rules, overwrite, validate, output, run, inner_output, validated_rules,
                   stdinLeft, outFS, stdout, stderr, exit_code, main_result, item, ri,
                   yielded, dropped, open_error, dispatch, trace, last_read>>

\* ------------------------------------------------ validate_rules, lines 152-193
\* What the OS can answer to an open besides what the flags decide.
OpenFaults == {"ok", "NotFound", "Other"}

\* OpenOptions::new().write(true).create_new(!overwrite).create(overwrite)
\*     .truncate(overwrite).open(path)
\* on the file system fs: the error kind, or the file created or truncated.
\* A file that exists has its parent, so NotFound is an answer only for a
\* path at which there is no file.
OpenOut(fs, path, ow, fault) ==
    IF fault = "Other" \/ (fault = "NotFound" /\ fs[path] = Absent)
    THEN [kind |-> fault, fs |-> fs]
    ELSE IF fs[path] # Absent /\ ~ow THEN [kind |-> "AlreadyExists", fs |-> fs]
    ELSE [kind |-> "ok", fs |-> [fs EXCEPT ![path] = <<>>]]

\* A freshly opened handle: its own offset (in lines), at the start of the file.
Handle(path, name) == [path |-> path, pos |-> 0, name |-> name]

\* The closure of line 177: one message per error kind.
DirOpenError(kind, path) ==
    CASE kind = "AlreadyExists" ->
            Msg("already exists, either remove this file or re-run with the -f / --overwrite flag", <<path>>)
      [] kind = "NotFound" -> Msg("Part of the path does not exist", <<path>>)
      [] OTHER -> Msg("ErrorKind", <<kind>>)

\* The for loop of line 167 from entry i on: one file per entry of
\* validated_rules, named after the entry; the first failing open leaves.
RECURSIVE OpenDir(_, _, _, _, _, _)
OpenDir(vr, i, fs, files, ow, faults) ==
    IF i > Len(vr) THEN [err |-> NoError, kind |-> "none", fs |-> fs, files |-> files]
    ELSE LET o == OpenOut(fs, vr[i].name, ow, faults[i])
         IN  IF o.kind # "ok"
             THEN [err |-> DirOpenError(o.kind, vr[i].name), kind |-> o.kind, fs |-> o.fs,
                   files |-> files]
             ELSE OpenDir(vr, i + 1, o.fs, Append(files, Handle(vr[i].name, vr[i].name)),
                          ow, faults)

OpenOutput ==
    /\ pc = "output"
    /\ \/ /\ output = None
          /\ inner_output' = [kind |-> "CommandLine"]
          /\ pc' = "check"
          /\ UNCHANGED <<outFS, result, open_error>>
       \/ /\ output = "file"
          /\ \E fault \in OpenFaults :
                LET o == OpenOut(outFS, OutFile, overwrite, fault)
                IN  /\ outFS' = o.fs
                    /\ open_error' = IF o.kind = "ok" THEN "none" ELSE o.kind
                    /\ IF o.kind = "ok"
                       THEN /\ inner_output' = [kind |-> "Files",
                                                files |-> <<Handle(OutFile, "")>>]
                            /\ pc' = "check"
                            /\ UNCHANGED result
                       ELSE /\ Fail(Msg("Could not create output file at", <<OutFile>>))
                            /\ UNCHANGED inner_output
       \/ /\ output = "dir"
          /\ \E faults \in [1..Len(validated_rules) -> OpenFaults] :
                LET o == OpenDir(validated_rules, 1, outFS, <<>>, overwrite, faults)
                IN  /\ outFS' = o.fs
                    /\ open_error' = o.kind
                    /\ IF o.err = NoError
                       THEN /\ inner_output' = [kind |-> "Files", files |-> o.files]
                            /\ pc' = "check"
                            /\ UNCHANGED result
                       ELSE /\ Fail(o.err)
                            /\ UNCHANGED inner_output
    /\ UNCHANGED <<args, run, inner_input, validated_rules, lines_seen, stdinLeft, stdout, stderr,
                   exit_code, main_result, item, ri, opened, yielded, dropped, dispatch, trace, last_read>>

\* ------------------------------------------------ validate_rules, lines 195-201
CheckRules ==
    /\ pc = "check"
    /\ IF validated_rules = <<>>
       THEN Fail(Msg("Could not validate any of the following rules", rules))
       ELSE /\ result' = Ok
            /\ pc' = "main"
    /\ UNCHANGED <<args, run, inner_input, inner_output, validated_rules, lines_seen, stdinLeft,
                   outFS, stdout, stderr, exit_code, main_result, item, ri, opened, yielded, dropped,
                   open_error, dispatch, trace, last_read>>

\* ------------------------------------------------------- main, lines 239-252
\* std::io::Stdout is a LineWriter.  A writeln! with arguments collects the
\* line in its buffer and flushes at the newline; when the flush fails, what
\* is not yet out stays in the buffer.  base is stdout before the line,
\* stages what can be out of the line (from nothing to the whole line), `at`
\* the stage the failed flush reached.
Held(base, stages, at) == [base |-> base, stages |-> stages, at |-> at]

\* Stdout with nothing in its buffer: so is all there is.
NoHeld(so) == Held(so, << <<>> >>, 1)

\* The cleanup std runs when the process ends (process::exit and the return
\* from main alike) flushes stdout once more: nothing more, a part more or
\* all the rest of a held line gets out.
StdCleanup(h) == \E n \in h.at..Len(h.stages) : stdout' = h.base \o h.stages[n]

\* process::exit(code)
Exit(code, h) ==
    /\ StdCleanup(h)
    /\ exit_code' = code
    /\ main_result' = "exit"
    /\ pc' = "exit"

\* What one writeln! to stdout or stderr can do: write the line, fail with
\* nothing written, or fail after a part of the line is out.
WriteOutcomes == {"ok", "none", "part"}

\* What a failed write leaves of a message on stderr.
CutMsg == <<[msg |-> "<part of a message>", at |-> <<>>]>>

\* stderr after writeln!(stderr, msg) with outcome w.
Written(err, msg, w) ==
    CASE w = "ok" -> err \o msg
      [] w = "part" -> err \o CutMsg
      [] OTHER -> err

\* The `?` of lines 242, 247, 249, 260 and 267 on a failed write: main
\* returns Err(e); the runtime prints "Error: .." to stderr (all of it, a
\* part, or nothing, as stderr takes it) and the process ends with status 1.
\* err is stderr as the failed write left it, h what stdout holds.
MainReturnsErr(err, h) ==
    /\ \E told \in WriteOutcomes : stderr' = Written(err, Msg("Error", <<>>), told)
    /\ StdCleanup(h)
    /\ exit_code' = <<1>>
    /\ main_result' = "Err"
    /\ pc' = "exit"

\* Line 270: the while loop is over and main returns Ok(()).
MainReturnsOk(h) ==
    /\ StdCleanup(h)
    /\ exit_code' = <<0>>
    /\ main_result' = "Ok"
    /\ pc' = "exit"

MainStartupError ==
    /\ pc = "main"
    /\ result.kind = "Err"
    /\ \E w \in WriteOutcomes :
          IF w = "ok"
          THEN stderr' = stderr \o result.err /\ Exit(<<1>>, NoHeld(stdout))
          ELSE MainReturnsErr(Written(stderr, result.err, w), NoHeld(stdout))
    /\ UNCHANGED <<args, run, inner_input, inner_output, validated_rules, lines_seen, stdinLeft,
                   outFS, result, item, ri, opened, yielded, dropped,
                   open_error, dispatch, trace, last_read>>

\* The rows of lines 248-250: the entry's name and rule.is_some().
ReportRows(vr) == [i \in 1..Len(vr) |-> [name |-> vr[i].name, is_valid |-> vr[i].rule # NoRule]]

\* What a failed write leaves of a line of the report on stdout.
CutRow == <<[name |-> "<part of a line>", is_valid |-> FALSE]>>

\* The lines 247-250 write: the header, then the rows.
Report(vr) == <<[name |-> "Rule Name", is_valid |-> "Is Valid"]>> \o ReportRows(vr)

\* What can be out of a row of the report: nothing, a part, the row.
RowStages(row) == << <<>>, CutRow, <<row>> >>

MainValidateOnly ==
    /\ pc = "main"
    /\ result.kind = "Ok"
    /\ validate
    /\ \E k \in 0..Len(Report(validated_rules)), w \in WriteOutcomes :
          \* k lines are written; the write of line k + 1 has outcome w
          LET lines == Report(validated_rules)
              at == IF w = "part" THEN 2 ELSE 1
              written == stdout \o SubSeq(lines, 1, k)
          IN  IF k = Len(lines)
              THEN /\ w = "ok"
                   /\ Exit(<<0>>, NoHeld(stdout \o lines))
                   /\ UNCHANGED stderr
              ELSE /\ w # "ok"
                   \* the header (line 247, no arguments) is one write past
                   \* the buffer; a row (line 249) is held when its flush fails
                   /\ MainReturnsErr(stderr,
                          IF k = 0
                          THEN NoHeld(written \o RowStages(lines[1])[at])
                          ELSE Held(written, RowStages(lines[k + 1]), at))
    /\ UNCHANGED <<args, run, inner_input, inner_output, validated_rules, lines_seen, stdinLeft,
                   outFS, result, item, ri, opened, yielded, dropped,
                   open_error, dispatch, trace, last_read>>

MainEnterLoop ==
    /\ pc = "main"
    /\ result.kind = "Ok"
    /\ ~validate
    /\ pc' = "next"
    /\ UNCHANGED <<args, run, inner_input, inner_output, validated_rules, lines_seen, stdinLeft,
                   outFS, stdout, stderr, result, exit_code, main_result, item, ri, opened, yielded, dropped,
                   open_error, dispatch, trace, last_read>>

\* ------------------------------------------------------ Input::next, lines 52-86
\* Length in bytes of a line text.
TextLen(t) == CASE t = "{}" -> 2 [] t = "x" -> 1 [] OTHER -> 0

\* A read_line whose count leaves the line terminator out.
ReadLineNoTerminator(buf, o) ==
    IF buf.left = 0 THEN [n |-> 0, line |-> "", buf |-> buf]
    ELSE IF o = ReadErr THEN [n |-> -1, line |-> "", buf |-> [buf EXCEPT !.left = @ - 1]]
    ELSE [n |-> TextLen(o), line |-> o, buf |-> [buf EXCEPT !.left = @ - 1]]

\* buffer.read_line(&mut line) when the OS answers `o` for an unread line:
\* n is the byte count of Ok(n), terminator included, or -1 for Err; the bytes
\* of the line are consumed either way.  With no unread line it is Ok(0).
ReadLine(buf, o) ==
    IF buf.left = 0 THEN [n |-> 0, line |-> "", buf |-> buf]
    ELSE IF o = ReadErr THEN [n |-> -1, line |-> "", buf |-> [buf EXCEPT !.left = @ - 1]]
    ELSE [n |-> TextLen(o) + 1, line |-> o, buf |-> [buf EXCEPT !.left = @ - 1]]

\* serde_json::from_str(text).map_err(|e| e.into())
FromStr(text) ==
    IF text = "{}" THEN [kind |-> "Ok", val |-> text]
    ELSE [kind |-> "Err", val |-> "decode error"]

\* An open failure that is taken for the end of the source.
OpenFailedEnds(popped) ==
    [inp |-> popped, item |-> [kind |-> "None", val |-> ""], opened |-> <<>>, dropped |-> 0]

\* Line 74: the open of the popped path failed; the error is returned as the
\* item of this call, the path stays popped and the reader stays as it is.
OpenFailed(popped) ==
    [inp |-> popped, item |-> [kind |-> "Err", val |-> "open error"], opened |-> <<>>,
     dropped |-> 0]

\* One invocation of the Files arm (lines 61-83): o is what the OS answers to
\* its read_line, f what the open of line 72 finds.  kind "None" is the item
\* None, kind "Call" the recursive call of line 76, whose result this
\* invocation returns.  Also the path opened (if any) and the number of
\* lines left unread in the reader it replaced.
NextFiles(inp, o, f) ==
    LET r == ReadLine(inp.buffer, o)
        read == [inp EXCEPT !.buffer = r.buf]
    IN  IF r.n > 0
        THEN [inp |-> read, item |-> FromStr(r.line), opened |-> <<>>, dropped |-> 0]
        ELSE IF read.paths = <<>>
        THEN [inp |-> read, item |-> [kind |-> "None", val |-> ""], opened |-> <<>>,
              dropped |-> 0]
        ELSE LET p == Last(read.paths)
                 popped == [read EXCEPT !.paths = Front(@)]
             IN  IF ~f.openable
                 THEN OpenFailed(popped)
                 ELSE [inp |-> [popped EXCEPT !.buffer = BufReader(p, f)],
                       item |-> [kind |-> "Call", val |-> ""],
                       opened |-> <<p>>, dropped |-> read.buffer.left]

\* The CommandLine arm (lines 56-60): stdin.lock().lines().next().  A read of
\* stdin that itself fails is Some(Err(e)) and leaves stdin where it was, so
\* the next call meets the same error.
NextStdin(left, o) ==
    IF o = ReadFault THEN [left |-> left, item |-> [kind |-> "Err", val |-> "read error"]]
    ELSE IF left = 0 THEN [left |-> 0, item |-> [kind |-> "None", val |-> ""]]
    ELSE IF o = ReadErr THEN [left |-> left - 1, item |-> [kind |-> "Err", val |-> "read error"]]
    ELSE [left |-> left - 1, item |-> FromStr(o)]

\* --------------------------------------------------- main, lines 253-270
\* `while let Some(res) = opt.next()` and the match on res: None ends the loop
\* and main returns Ok(()); an Err is written to stderr; an Ok record goes to
\* the for loop over the rules.  While next() is in its recursive call
\* (kind "Call") main has nothing yet.
\* Line 267 and the end of the while body: once the Err is written the loop
\* calls next() again.
ErrItemContinues ==
    /\ pc' = "next"
    /\ UNCHANGED <<stdout, exit_code, main_result>>

Deliver(it) ==
    /\ item' = it
    /\ dispatch' = NoCall
    /\ trace' = <<>>
    /\ CASE it.kind = "Call" ->
               /\ pc' = "recurse"
               /\ UNCHANGED <<stdout, stderr, ri, yielded, exit_code, main_result>>
         [] it.kind = "None" ->
               /\ MainReturnsOk(NoHeld(stdout))
               /\ UNCHANGED <<stderr, ri, yielded>>
         [] it.kind = "Err" ->
               /\ yielded' = yielded + 1
               /\ \E w \in WriteOutcomes :
                     IF w = "ok"
                     THEN stderr' = stderr \o Msg(it.val, <<>>) /\ ErrItemContinues
                     ELSE MainReturnsErr(Written(stderr, Msg(it.val, <<>>), w),
                                         NoHeld(stdout))
               /\ UNCHANGED ri
         [] OTHER ->
               /\ yielded' = yielded + 1
               /\ pc' = "eval"
               /\ ri' = 1
               /\ UNCHANGED <<stdout, stderr, exit_code, main_result>>

\* Opt::next (lines 229-234) and one invocation of Input::next: called by the
\* while loop (pc "next") or by itself at line 76 (pc "recurse").
Pull ==
    /\ pc \in {"next", "recurse"}
    /\ \/ /\ inner_input.kind = "Files"
          /\ \E o \in ReadOutcomes, f \in InputFiles(lines_seen) :
                LET r == NextFiles(inner_input, o, f)
                IN  \* an answer that is not asked for is left at one value
                    /\ inner_input.buffer.left = 0 => o = ReadErr
                    /\ r.item.kind \in {"Ok", "None"} \/ r.item.val = "decode error"
                          => f = NoFile
                    /\ inner_input' = r.inp
                    /\ opened' = opened \o r.opened
                    /\ lines_seen' = lines_seen + (IF r.opened = <<>> THEN 0 ELSE f.lines)
                    /\ dropped' = dropped + r.dropped
                    /\ last_read' = Met(inner_input.buffer.left, o)
                    /\ Deliver(r.item)
          /\ UNCHANGED stdinLeft
       \/ /\ inner_input.kind = "CommandLine"
          /\ \E o \in StdinOutcomes :
                LET r == NextStdin(stdinLeft, o)
                IN  /\ stdinLeft = 0 => o \in {ReadErr, ReadFault}
                    /\ o = ReadFault => yielded < MaxItems
                    /\ stdinLeft' = r.left
                    /\ last_read' = Met(stdinLeft, o)
                    /\ Deliver(r.item)
          /\ UNCHANGED <<inner_input, opened, dropped, lines_seen>>
       \* Opt::next with inner_input None: lines 230-233 give None
       \/ /\ inner_input.kind = "None"
          /\ Deliver([kind |-> "None", val |-> ""])
          /\ UNCHANGED <<inner_input, opened, stdinLeft, dropped, lines_seen, last_read>>
    /\ UNCHANGED <<args, run, inner_output, validated_rules, outFS, result,
                   open_error>>

\* --------------------------------------------- Opt::output_match, lines 203-224
\* A write that always goes to the end of the file (a handle opened for
\* appending).
WriteLineAtEnd(content, pos, line) == Append(content, line)

\* A write of one line through a handle: at the handle's own offset, which
\* then moves past the line.
WriteLine(content, pos, line) ==
    IF pos < Len(content) THEN [content EXCEPT ![pos + 1] = line]
    ELSE Append(content, line)

\* What a failed writeln! of a record has got out when it returns.  The line
\* reaches the file in more than one write call and a flush of stdout can
\* stop half way, so a failure can come after a part of it: nothing, the
\* first bytes of the record, or the whole record without its line terminator.
Nothing == "<nothing>"
Cuts == {Nothing, "{", "{}<no newline>"}

\* What can be out of a record written to stdout: a cut, or the record.
RecordStages(json) == << <<>>, <<"{">>, <<"{}<no newline>">>, <<json>> >>

\* The stage of RecordStages a cut is.
StageOf(cut) == CASE cut = Nothing -> 1 [] cut = "{" -> 2 [] OTHER -> 3

\* The line at a handle's offset once the bytes `cut` are written over its
\* first bytes: a whole line of the same record keeps its bytes.
Over(old, cut) == IF old = "{}" THEN old ELSE cut

\* A write through a handle that fails after the bytes `cut`.
WriteCut(content, pos, cut) ==
    IF cut = Nothing THEN content
    ELSE IF pos < Len(content) THEN [content EXCEPT ![pos + 1] = Over(@, cut)]
    ELSE Append(content, cut)

\* A loop that writes to every entry.
SelectsAll(o, i, rule_filename) == TRUE

\* A loop without the `len == 1` case: only the stored name decides.
SelectsByName(o, i, rule_filename) == o[i].name = rule_filename

\* Does the loop of line 211 write to entry i of o?
Selects(o, i, rule_filename) == o[i].name = rule_filename \/ Len(o) = 1

\* The loop of lines 211-215 from entry i on; the write to entry `fail` (0: no
\* write) fails after the bytes `cut` and `?` returns its error at once.  The
\* offset of a handle counts whole lines.
RECURSIVE WriteFiles(_, _, _, _, _, _, _, _)
WriteFiles(o, fs, json, rule_filename, i, fail, cut, done) ==
    IF i > Len(o) THEN [files |-> o, fs |-> fs, wrote |-> done, res |-> "Ok"]
    ELSE IF Selects(o, i, rule_filename)
    THEN IF fail = i
         THEN [files |-> o, fs |-> [fs EXCEPT ![o[i].path] = WriteCut(@, o[i].pos, cut)],
               wrote |-> done, res |-> "Err"]
         ELSE WriteFiles([o EXCEPT ![i].pos = @ + 1],
                         [fs EXCEPT ![o[i].path] = WriteLine(@, o[i].pos, json)],
                         json, rule_filename, i + 1, fail, cut, Append(done, i))
    ELSE WriteFiles(o, fs, json, rule_filename, i + 1, fail, cut, done)

\* output_match(json, rule_filename): the sink, the file system and stdout
\* afterwards (so: what is out; held: that and what stdout's buffer keeps of a
\* line whose flush failed), the entries written and the result ("Ok", "Err"
\* for Err(Some(e)), "ErrNone" for Err(None)).  A File has no buffer.
OutputMatch(out, fs, so, json, rule_filename, fail, cut) ==
    CASE out.kind = "Files" ->
            LET w == WriteFiles(out.files, fs, json, rule_filename, 1, fail, cut, <<>>)
            IN  [out |-> [out EXCEPT !.files = w.files], fs |-> w.fs, so |-> so,
                 held |-> NoHeld(so), wrote |-> w.wrote, res |-> w.res]
      [] out.kind = "CommandLine" ->
            IF fail # 0
            THEN [out |-> out, fs |-> fs,
                  so |-> so \o RecordStages(json)[StageOf(cut)],
                  held |-> Held(so, RecordStages(json), StageOf(cut)),
                  wrote |-> <<>>, res |-> "Err"]
            ELSE [out |-> out, fs |-> fs, so |-> Append(so, json),
                  held |-> NoHeld(Append(so, json)), wrote |-> <<0>>, res |-> "Ok"]
      [] OTHER -> [out |-> out, fs |-> fs, so |-> so, held |-> NoHeld(so), wrote |-> <<>>,
                   res |-> "ErrNone"]

\* How many writes the environment can fail in one call.
FailPoints(out) == IF out.kind = "Files" THEN 0..Len(out.files) ELSE {0, 1}

\* --------------------------------------------------- main, lines 256-265
\* The for loop moves to the next entry, or the while loop to the next record.
Advance ==
    IF ri = Len(validated_rules)
    THEN pc' = "next" /\ ri' = 0
    ELSE pc' = "eval" /\ ri' = ri + 1

\* A main that drops the result of output_match and goes on.
AfterWriteIgnored(w) ==
    /\ Advance
    /\ stdout' = w.so
    /\ UNCHANGED <<stderr, exit_code, main_result>>

\* What main does with the result of output_match (lines 259-262): only
\* Err(Some(e)) is reported and ends the process.  w is what output_match
\* returned and left.
AfterWrite(w) ==
    IF w.res = "Err"
    THEN /\ \E told \in WriteOutcomes :
               LET report == Msg("An error occured whilst outputting data", <<>>)
               IN  IF told = "ok"
                   THEN stderr' = stderr \o report /\ Exit(<<1>>, w.held)
                   ELSE MainReturnsErr(Written(stderr, report, told), w.held)
         /\ UNCHANGED ri
    ELSE /\ Advance
         /\ stdout' = w.so
         /\ UNCHANGED <<stderr, exit_code, main_result>>

\* A loop that asks the rule engine about every entry.
EvaluatesAll(entry) == TRUE

\* `if let Some(r) = rule` (line 257): only an entry with a rule is evaluated.
Evaluates(entry) == entry.rule # NoRule

\* One pass of the for loop body for entry ri; r.matches(&json) is the rule
\* engine's answer.
EvalRule ==
    /\ pc = "eval"
    /\ LET entry == validated_rules[ri]
       IN  \/ /\ ~Evaluates(entry)
              /\ Advance
              /\ dispatch' = NoCall
              /\ trace' = Append(trace, [entry |-> ri, matches |-> FALSE, called |-> FALSE])
              /\ UNCHANGED <<inner_output, outFS, stdout, stderr, exit_code, main_result>>
           \/ /\ Evaluates(entry)
              /\ \E matches \in BOOLEAN :
                    IF ~matches
                    THEN /\ Advance
                         /\ dispatch' = NoCall
                         /\ trace' = Append(trace, [entry |-> ri, matches |-> FALSE,
                                                    called |-> FALSE])
                         /\ UNCHANGED <<inner_output, outFS, stdout, stderr, exit_code, main_result>>
                    ELSE \E fail \in FailPoints(inner_output),
                            cut \in Cuts :
                            LET w == OutputMatch(inner_output, outFS, stdout, item.val,
                                                 entry.name, fail, cut)
                            IN  /\ fail = 0 => cut = Nothing
                                /\ trace' = Append(trace, [entry |-> ri, matches |-> TRUE,
                                                           called |-> TRUE])
                                /\ inner_output' = w.out
                                /\ outFS' = w.fs
                                /\ dispatch' = [name |-> entry.name, wrote |-> w.wrote,
                                                res |-> w.res]
                                /\ AfterWrite(w)
    /\ UNCHANGED <<args, run, inner_input, validated_rules, lines_seen, stdinLeft, result, item,
                   opened, yielded, dropped, open_error, last_read>>

\* ------------------------------------------------------- main, lines 237-239
\* The command line of a validate-only run that ended with status 0 is run
\* once more: a new process with the same arguments (Opt::from_args), on the
\* file system as the run before left it.
Rerun ==
    /\ pc = "exit"
    /\ validate
    /\ exit_code = <<0>>
    /\ run.n < MaxRuns
    /\ run' = [n |-> run.n + 1, input |-> run.input,
               prev |-> [stdout |-> stdout, exit_code |-> exit_code]]
    /\ input' = run.input
    /\ lines_seen' = 0
    /\ inner_input' = NoInput
    /\ inner_output' = NoOutput
    /\ validated_rules' = <<>>
    /\ stdout' = <<>>
    /\ stderr' = <<>>
    /\ pc' = "load"
    /\ result' = NotYet
    /\ exit_code' = Running
    /\ main_result' = NotEnded
    /\ item' = NoItem
    /\ ri' = 0
    /\ opened' = <<>>
    /\ yielded' = 0
    /\ dropped' = 0
    /\ open_error' = "none"
    /\ dispatch' = NoCall
    /\ trace' = <<>>
    /\ last_read' = NoRead
    /\ UNCHANGED <<rules, overwrite, validate, output, stdinLeft, outFS>>

Next ==
    \/ LoadRules
    \/ OpenInput
    \/ OpenOutput
    \/ CheckRules
    \/ MainStartupError
    \/ MainValidateOnly
    \/ MainEnterLoop
    \/ Pull
    \/ EvalRule
    \/ Rerun

Spec == Init /\ [][Next]_vars

\* ======================================================================
\* Properties
\* ======================================================================
\* An output path this run created or truncated (and possibly wrote to).
Touched(p) == outFS[p] # Absent /\ outFS[p] # OldData

\* s is a prefix of t.
IsPrefix(s, t) == Len(s) <= Len(t) /\ SubSeq(t, 1, Len(s)) = s

\* Every supplied input path was opened (validate_rules popped one path off
\* input.paths): lines_seen is then the total number of lines of all the files.
AllOpened == Len(opened) = Len(input.paths) + 1

\* C1: the Record Source consumes the input files in stack order: the paths
\* are opened last-supplied first, and no reader is replaced by the next file
\* while it still has unread lines (each file is exhausted before the
\* previously supplied one is opened).
C1_StackOrder ==
    /\ \A j, k \in DOMAIN opened : j < k => opened[j] > opened[k]
    /\ dropped = 0

\* C2: when the loop has driven the Record Source over input files to None,
\* the number of items it yielded (Ok and Err) is the total number of lines
\* of all the files.
C2_YieldsEveryLine ==
    (/\ pc = "exit"
     /\ item.kind = "None"
     /\ inner_input.kind = "Files"
     /\ AllOpened)
    => yielded = lines_seen

\* C3: in directory output mode a pass of the for loop that calls
\* output_match(record, R) changes no output file other than the one named R.
C3_OnlyOwnFile ==
    [][(pc = "eval" /\ output = "dir")
       => \A p \in OutPaths : p # validated_rules[ri].name => outFS'[p] = outFS[p]]_vars

C3_Witness ==
    /\ output = "dir"
    /\ dispatch.res = "Ok"
    /\ Len(inner_output.files) = 2
    /\ inner_output.files[1].name # inner_output.files[2].name
    /\ outFS[dispatch.name] = <<"{}">>
    /\ \E k \in 1..2 : /\ inner_output.files[k].name # dispatch.name
                       /\ outFS[inner_output.files[k].name] = <<>>

\* C4: in single-destination output mode (one output file, or stdout) every
\* successful call output_match(record, R) appends the record to that one
\* destination, whatever R is.
C4_SingleDestination ==
    [][(pc = "eval" /\ output # "dir" /\ dispatch'.res = "Ok")
       => IF output = "file"
          THEN outFS'[OutFile] = Append(outFS[OutFile], item.val) /\ stdout' = stdout
          ELSE stdout' = Append(stdout, item.val) /\ outFS' = outFS]_vars

C4_Witness ==
    /\ output = "file"
    /\ dispatch.res = "Ok"
    /\ Len(validated_rules) = 2
    /\ ri = 2
    /\ dispatch.name = validated_rules[1].name
    /\ outFS[OutFile] = <<"{}", "{}">>

\* C5: when rule paths are supplied and none yields a validated rule (every
\* entry has rule None), validate_rules does not return Ok and no input
\* record is consumed.
C5_NoValidRuleAborts ==
    (/\ rules # <<>>
     /\ Len(validated_rules) = Len(rules)
     /\ \A i \in DOMAIN validated_rules : validated_rules[i].rule = NoRule)
    => result.kind # "Ok" /\ yielded = 0

\* C6: in directory output mode the run creates or truncates an output file
\* only for a rule entry that has rule Some.
C6_FilesOnlyForValidated ==
    output = "dir"
    => \A p \in OutPaths :
          Touched(p) => \E i \in DOMAIN validated_rules :
                            validated_rules[i].name = p /\ validated_rules[i].rule # NoRule

\* C7: the report of a validate-only run has exactly one row per supplied
\* rule path, in supply order, and its is_valid is true iff the rule parsed
\* and its validation check returned true.
C7_Report ==
    (pc = "exit" /\ validate /\ exit_code = <<0>>)
    => /\ Len(stdout) = Len(rules) + 1
       /\ \A i \in DOMAIN rules :
             /\ stdout[i + 1].name = FileName(rules[i])
             /\ stdout[i + 1].is_valid
                   = (RuleFile(rules[i]).parses /\ RuleFile(rules[i]).validates = "true")

C7_Witness ==
    /\ pc = "exit"
    /\ validate
    /\ exit_code = <<0>>
    /\ Len(rules) = 2
    /\ stdout[2].is_valid
    /\ ~stdout[3].is_valid
    /\ RuleFile(rules[2]).parses

\* C8: a validate-only run that has printed its report and exited with
\* status 0 has touched no input and no output: no input file was opened and
\* no output file was created or truncated.
C8_ValidateTouchesNothing ==
    (validate /\ pc = "exit" /\ exit_code = <<0>>)
    => (opened = <<>> /\ \A p \in OutPaths : ~Touched(p))

\* C9: for every output destination, a target that exists while overwrite is
\* not set fails startup with the "already exists" message; with overwrite
\* set the open truncates the file.
AlreadyExistsMsg ==
    "already exists, either remove this file or re-run with the -f / --overwrite flag"

C9_Overwrite ==
    /\ open_error = "AlreadyExists"
          => /\ ~overwrite
             /\ result.kind = "Err"
             /\ result.err[1].msg = AlreadyExistsMsg
    /\ (inner_output.kind = "Files" /\ overwrite)
          => \A k \in DOMAIN inner_output.files : Touched(inner_output.files[k].path)

\* C10: a write failure of output_match ends the run: main writes its report
\* to stderr (the report is the last line there when main got as far as
\* process::exit, that is when stderr took the write), the process ends with
\* status 1, no step of the process follows (no record is pulled, no write
\* made; the only step from an ended process is the start of the next run),
\* and the failing call removes nothing that was written before: what stdout
\* and every output file held is still there, at most followed by the part of
\* the record the failed write got out.
C10_WriteFailureFatal ==
    /\ [](dispatch.res = "Err"
            => /\ pc = "exit"
               /\ exit_code = <<1>>
               /\ main_result = "exit"
                     => stderr[Len(stderr)].msg = "An error occured whilst outputting data")
    /\ [][/\ pc = "exit" => run'.n = run.n + 1
          /\ dispatch'.res = "Err"
                => /\ IsPrefix(stdout, stdout')
                   /\ \A p \in OutPaths : IsPrefix(outFS[p], outFS'[p])]_vars

C10_Witness ==
    /\ dispatch.res = "Err"
    /\ pc = "exit"
    /\ main_result = "exit"
    /\ yielded = 2
    /\ \E p \in OutPaths : Touched(p) /\ Len(outFS[p]) >= 1

\* C11: a decode failure on an input line is reported and does not abort the
\* run: the step that yields it writes the error to stderr, leaves the process
\* running with the loop at its next call of next(), consumes exactly that one
\* line (no pending path is popped, no unread line dropped), so the later
\* lines are still there to be pulled; a run whose source returns None exits
\* with status 0.
C11_DecodeFailureNotFatal ==
    /\ [][(pc \in {"next", "recurse"} /\ item'.kind = "Err" /\ item'.val = "decode error")
            => /\ pc' = "next"
               /\ exit_code' = Running
               /\ stderr' = stderr \o Msg("decode error", <<>>)
               /\ opened' = opened
               /\ dropped' = dropped
               /\ inner_input.kind = "Files"
                     => /\ inner_input'.paths = inner_input.paths
                        /\ inner_input'.buffer.file = inner_input.buffer.file
                        /\ inner_input'.buffer.left = inner_input.buffer.left - 1
               /\ inner_input.kind = "CommandLine" => stdinLeft' = stdinLeft - 1]_vars
    /\ []((pc = "exit" /\ item.kind = "None") => exit_code = <<0>>)

\* C12: a rule load failure is not fatal.  Once the loading loop is over,
\* either some supplied path has a file name that does not convert to a
\* displayable name and startup has failed, or there is one entry per
\* supplied rule path, in order, whose rule is None exactly when the source
\* cannot be read, does not parse or does not validate.
C12_LoadFailureNotFatal ==
    pc # "load"
    => IF \E i \in DOMAIN rules : FileName(rules[i]) = NoName
       THEN result.kind = "Err"
       ELSE /\ Len(validated_rules) = Len(rules)
            /\ \A i \in DOMAIN rules :
                  /\ validated_rules[i].name = FileName(rules[i])
                  /\ (validated_rules[i].rule = NoRule)
                        <=> ~(/\ RuleFile(rules[i]).readable
                              /\ RuleFile(rules[i]).parses
                              /\ RuleFile(rules[i]).validates = "true")

\* The environment answered this run as it did a run that got through
\* startup and printed its report: the input path (if any) opened, no output
\* open met an OS fault and no write of the report failed.
NoFault ==
    /\ run.input.some => opened # <<>>
    /\ open_error \in {"none", "AlreadyExists"}
    /\ result.kind = "Ok" => main_result = "exit"

\* C13: a validate-only run that follows a validate-only run of the same
\* arguments which printed its report and exited with status 0 prints the
\* same report and exits with status 0 too.
C13_ValidateIdempotent ==
    (/\ run.n > 1
     /\ run.prev.exit_code = <<0>>
     /\ validate
     /\ pc = "exit"
     /\ NoFault)
    => (exit_code = <<0>> /\ stdout = run.prev.stdout)

\* C14: for a decoded record the for loop visits the rule entries in load
\* order, one pass each, and calls output_match in a pass exactly when the
\* entry has a rule and the rule matches the record, with the entry's name;
\* an entry with rule None is never dispatched.  When the loop is through,
\* there is one pass per entry, so k matching validated rules give k calls.
C14_DispatchPerMatch ==
    item.kind = "Ok"
    => /\ \A k \in DOMAIN trace :
             /\ trace[k].entry = k
             /\ trace[k].called = (validated_rules[k].rule # NoRule /\ trace[k].matches)
       /\ pc = "eval" => Len(trace) = ri - 1
       /\ pc = "next" => Len(trace) = Len(validated_rules)
       /\ dispatch.res # "not called"
             => /\ trace # <<>>
                /\ trace[Len(trace)].called
                /\ dispatch.name = validated_rules[Len(trace)].name

\* A record went through two entries: the first has no rule and was not
\* dispatched, the second matched and was dispatched.
C14_Witness ==
    /\ item.kind = "Ok"
    /\ pc = "next"
    /\ Len(trace) = 2
    /\ validated_rules[1].rule = NoRule
    /\ ~trace[1].called
    /\ trace[2].called
    /\ dispatch.res = "Ok"
    /\ stdout = <<"{}">>

\* C15: every successful call output_match(record, R) appends the record
\* once, as one line, to exactly one destination: either stdout gains the
\* record as its last line and no file changes, or exactly one output file
\* gains the record as its last line and stdout and every other file stay as
\* they were.  Two rule paths with the same file name give two handles on one
\* file; the call writes through both, at the same offset.
C15_AppendsOnce ==
    [][(pc = "eval" /\ dispatch'.res = "Ok")
       => \/ /\ stdout' = Append(stdout, item.val)
             /\ outFS' = outFS
          \/ /\ stdout' = stdout
             /\ \E p \in OutPaths :
                   /\ outFS'[p] = Append(outFS[p], item.val)
                   /\ \A q \in OutPaths \ {p} : outFS'[q] = outFS[q]]_vars

\* Directory mode with overwrite set and two rule paths of the same file
\* name: the second record was written through both handles, and the file
\* holds the two records, each once.
C15_Witness ==
    /\ output = "dir"
    /\ overwrite
    /\ Len(rules) = 2
    /\ FileName(rules[1]) = FileName(rules[2])
    /\ dispatch.res = "Ok"
    /\ dispatch.wrote = <<1, 2>>
    /\ yielded = 2
    /\ outFS["r1.yml"] = <<"{}", "{}">>

\* C16: in file mode, a call of next() that finds the current file exhausted
\* and cannot open the next pending path yields one error item for that call
\* and goes no further (no recursive call): the failed path is off the pending
\* list and the reader is as it was.  The next call of next() ends the
\* source if no path is pending, and otherwise goes on with the last pending
\* path (it opens it, or yields its open error).
C16_OpenFailureYieldsOnce ==
    /\ [][(/\ pc \in {"next", "recurse"}
           /\ inner_input.kind = "Files"
           /\ inner_input.buffer.left = 0
           /\ inner_input.paths # <<>>
           /\ opened' = opened)
          => /\ item' = [kind |-> "Err", val |-> "open error"]
             /\ yielded' = yielded + 1
             /\ inner_input'.paths = Front(inner_input.paths)
             /\ inner_input'.buffer = inner_input.buffer
             /\ pc' \in {"next", "exit"}]_vars
    /\ [][(/\ pc = "next"
           /\ item.val = "open error"
           /\ inner_input.buffer.left = 0)
          => IF inner_input.paths = <<>>
             THEN item'.kind = "None" /\ exit_code' = <<0>>
             ELSE /\ inner_input'.paths = Front(inner_input.paths)
                  /\ \/ opened' = Append(opened, Last(inner_input.paths)) /\ pc' = "recurse"
                     \/ opened' = opened /\ item'.val = "open error"]_vars

\* Three input paths: the last one was read to its end, the middle one could
\* not be opened (one error item), and the first one was then opened and its
\* record pulled and written.
C16_Witness ==
    /\ opened = <<3, 1>>
    /\ stderr = Msg("open error", <<>>)
    /\ yielded = 2
    /\ dropped = 0
    /\ item.kind = "Ok"
    /\ stdout = <<"{}">>

\* The step of next() consumed one line of the current input and nothing
\* else: no pending path popped, no file opened, no unread line dropped.
ConsumesOneLine ==
    /\ opened' = opened
    /\ dropped' = dropped
    /\ inner_input.kind = "Files"
          => /\ inner_input'.paths = inner_input.paths
             /\ inner_input'.buffer.file = inner_input.buffer.file
             /\ inner_input'.buffer.left = inner_input.buffer.left - 1
    /\ inner_input.kind = "CommandLine" => stdinLeft' = stdinLeft - 1

\* C17: a read of a line that fails, from stdin or from an input file, is
\* yielded as one error item, which the loop reports before it calls next()
\* again; the failed read costs that one line at most (the rest of the input
\* stays to be read) and the process goes on running.
C17_ReadErrorSurfaced ==
    [][(pc \in {"next", "recurse"} /\ last_read' \in {ReadErr, ReadFault})
       => /\ item' = [kind |-> "Err", val |-> "read error"]
          /\ yielded' = yielded + 1
          /\ stderr' = stderr \o Msg("read error", <<>>)
          /\ pc' = "next"
          /\ exit_code' = Running
          /\ IF last_read' = ReadErr
             THEN ConsumesOneLine
             ELSE UNCHANGED <<opened, dropped, inner_input, stdinLeft>>]_vars

\* C18: a read that meets a blank line yields exactly one decode-error item
\* and consumes that one line: it is not taken for the end of the file, so no
\* pending path is popped and the lines after it stay to be read from the
\* same reader.
C18_BlankLineIsDecodeError ==
    [][(pc \in {"next", "recurse"} /\ last_read' = "")
       => /\ item' = [kind |-> "Err", val |-> "decode error"]
          /\ yielded' = yielded + 1
          /\ pc' \in {"next", "exit"}
          /\ ConsumesOneLine]_vars

\* A blank line was read from a file that has another line after it while a
\* path is still pending: one decode error, the reader still on the file.
C18_Witness ==
    /\ last_read = ""
    /\ item = [kind |-> "Err", val |-> "decode error"]
    /\ yielded = 1
    /\ inner_input.kind = "Files"
    /\ inner_input.paths # <<>>
    /\ inner_input.buffer.left = 1
    /\ Len(opened) = 1
    /\ pc = "next"

\* C19: in file mode next() returns None only when no path is pending and
\* the current reader has no unread line, and once it has returned None a
\* further call returns None again, whatever the file system answers.
C19_NoneIsFinal ==
    (item.kind = "None" /\ inner_input.kind = "Files")
    => /\ inner_input.paths = <<>>
       /\ inner_input.buffer.left = 0
       /\ \A o \in ReadOutcomes, f \in InputFiles(lines_seen) :
             NextFiles(inner_input, o, f).item.kind = "None"

\* C20: when validate_rules has returned an error (in the first run of the
\* command line, which starts with every output path absent or holding its
\* old data), every output path is as it was when the run started: nothing
\* created, nothing truncated.
C20_FailedStartupLeavesOutput ==
    (run.n = 1 /\ result.kind = "Err") => \A p \in OutPaths : ~Touched(p)
====
